---- MODULE Spec2Model ----
(***************************************************************************)
(* Next-fit implicit-free-list allocator of src/mm.c.                      *)
(*                                                                         *)
(* The heap is a word-addressed memory.  Addresses are byte offsets from   *)
(* the first byte mem_sbrk ever returned.  A uint32_t value v is kept as   *)
(* its 32-bit pattern read as a signed number (v itself below 2^31,        *)
(* v - 2^32 from 2^31 on), so every word of the program fits a 32-bit      *)
(* integer; the U32 operators below are the unsigned operations of C on    *)
(* these patterns.                                                         *)
(***************************************************************************)
EXTENDS Integers, Sequences, FiniteSets, TLC

\* ------------------------------------------------------------------ bounds
\* Number of calls made after mm_init.
MaxCalls == 4
\* Width of each range of requests the size adjustment is tried on.
AdjustSpan == 40
\* Number of whole chunks the heap may grow to before mem_sbrk refuses.
MaxChunks == 3

\* --------------------------------------------------------------- constants
WSIZE == 4
DSIZE == 8
CHUNKSIZE == 4096
\* INT_MAX of the 32-bit int / uint32_t the code computes with.
MaxInt32 == 2147483647

\* The null pointer, and the addresses far above and far below the heap.
NULL == 0 - 1
Above == MaxInt32
Below == 0 - MaxInt32

\* ------------------------------------------------------ 32-bit arithmetic
\* Patterns of 2^31 and of the small negative numbers (2^32 - k).
MinInt32 == (0 - MaxInt32) - 1

\* a < b and a <= b on unsigned 32-bit values.
U32Lt(a, b) == IF (a < 0) = (b < 0) THEN a < b ELSE b < 0
U32Le(a, b) == a = b \/ U32Lt(a, b)

\* (a + b) mod 2^32.
U32Add(a, b) ==
    IF a >= 0 /\ b >= 0 /\ a > MaxInt32 - b
    THEN ((a - MaxInt32) - 1) + ((b - MaxInt32) - 1)
    ELSE IF a < 0 /\ b < 0 /\ a < MinInt32 - b
    THEN ((a + MaxInt32) + 1) + ((b + MaxInt32) + 1)
    ELSE a + b

\* (a - b) mod 2^32.
U32Sub(a, b) ==
    IF a >= 0 /\ b < 0 /\ a > MaxInt32 + b
    THEN ((a - MaxInt32) - 1) - ((b + MaxInt32) + 1)
    ELSE IF a < 0 /\ b > 0 /\ a < MinInt32 + b
    THEN ((a + MaxInt32) + 1) - ((b - MaxInt32) - 1)
    ELSE a - b

\* a / c on an unsigned value, c a power of two (2^32 / c = 2 * (2^31 / c)).
U32Div(a, c) ==
    IF a >= 0 THEN a \div c
    ELSE 2 * ((MaxInt32 \div c) + 1) + (a \div c)

\* (c * q) mod 2^32 for c a power of two and 0 <= q <= 2^32 / c.
U32Mul(c, q) ==
    LET half == (MaxInt32 \div c) + 1
    IN  IF q < half THEN c * q
        ELSE IF q < 2 * half THEN c * (q - 2 * half)
        ELSE c * (q - 4 * half)

\* --------------------------------------------------------- block codec
PACK(size, alloc) == IF size % 2 = 1 THEN size ELSE size + (alloc % 2)

GET_SIZE(w) == w - (w % 8)

GET_ALLOC(w) == w % 2

\* The heap as the functions below pass it along:
\*   mem    the words written so far, by byte offset (a word that was never
\*          written holds no value: it is not in DOMAIN mem)
\*   brk    mem_brk, the first byte after the heap
\*   max    the limit mem_sbrk enforces
\*   hl     heap_listp
\*   nf     next_fit
\*   calls  the mem_sbrk requests of the current call, in order
\*   copy   the memcpy of the current call: <<[dst, n]>>, or <<>>
\*   ub     an access outside the heap, or a read of a word never written
\*   hang   a loop that cannot end
Heap0(max) ==
    [mem |-> <<>>, brk |-> 0, max |-> max, hl |-> NULL, nf |-> NULL,
     calls |-> <<>>, copy |-> <<>>, ub |-> FALSE, hang |-> FALSE]

InHeap(h, p) == p >= 0 /\ p % WSIZE = 0 /\ p + WSIZE <= h.brk

Valid(h, p) == p \in DOMAIN h.mem

\* Pointer plus/minus a small constant, and plus/minus an unsigned size.
POff(p, k) == IF p \in {Above, Below} THEN p ELSE p + k

PAdd(h, p, s) ==
    IF p \in {Above, Below} THEN p
    ELSE IF s < 0 \/ s > h.max THEN Above ELSE p + s

PSub(h, p, s) ==
    IF p \in {Above, Below} THEN p
    ELSE IF s < 0 \/ s > h.max THEN Below ELSE p - s

\* GET: the word at p (0 stands for a word that has no value; Reads marks it).
GET(h, p) == IF Valid(h, p) THEN h.mem[p] ELSE 0

Reads(h, S) == IF \A p \in S : Valid(h, p) THEN h ELSE [h EXCEPT !.ub = TRUE]

PUT(h, p, val) ==
    IF InHeap(h, p)
    THEN IF Valid(h, p) THEN [h EXCEPT !.mem[p] = val]
         ELSE [h EXCEPT !.mem = (p :> val) @@ @]
    ELSE [h EXCEPT !.ub = TRUE]

HDRP(bp) == POff(bp, 0 - WSIZE)

FTRP(h, bp) == POff(PAdd(h, bp, GET_SIZE(GET(h, HDRP(bp)))), 0 - DSIZE)

NEXT_BLKP(h, bp) == PAdd(h, bp, GET_SIZE(GET(h, POff(bp, 0 - WSIZE))))

PREV_BLKP(h, bp) == PSub(h, bp, GET_SIZE(GET(h, POff(bp, 0 - DSIZE))))

\* Every function of mm.c below yields [h |-> the heap after it, ret |-> its
\* return value].

\* mem_sbrk(incr): grow the heap by incr bytes and return the old break, or
\* fail ((void *)-1, here NULL) at the limit; the new words hold no value.
mem_sbrk(h, incr) ==
    IF incr < 0 \/ h.brk + incr > h.max
    THEN [h |-> [h EXCEPT !.calls = Append(@, [incr |-> incr, ok |-> FALSE])],
          ret |-> NULL]
    ELSE [h |-> [h EXCEPT !.brk = @ + incr,
                          !.calls = Append(@, [incr |-> incr, ok |-> TRUE])],
          ret |-> h.brk]

\* The end of coalesce: pull next_fit out of the middle of the merged block.
coalesceCursor(h, bp) ==
    LET h1 == Reads(h, {HDRP(bp)})
    IN  IF h.nf >= bp /\ h.nf < NEXT_BLKP(h, bp)
        THEN [h |-> [h1 EXCEPT !.nf = bp], ret |-> bp]
        ELSE [h |-> h1, ret |-> bp]

\* PUT(HDRP(bp), val), PUT(FTRP(bp), val), PUT(HDRP(NEXT_BLKP(bp)), val),
\* PUT(HDRP(PREV_BLKP(bp)), val) and PUT(FTRP(NEXT_BLKP(bp)), val): each
\* address is computed in the heap as it is when the statement runs.
PutHdr(h, bp, val) == PUT(h, HDRP(bp), val)

PutFtr(h, bp, val) == PUT(h, FTRP(h, bp), val)

PutNextHdr(h, bp, val) == PUT(h, HDRP(NEXT_BLKP(h, bp)), val)

PutPrevHdr(h, bp, val) ==
    PUT(Reads(h, {POff(bp, 0 - DSIZE)}), HDRP(PREV_BLKP(h, bp)), val)

PutNextFtr(h, bp, val) ==
    PUT(Reads(h, {HDRP(bp), HDRP(NEXT_BLKP(h, bp))}),
        FTRP(h, NEXT_BLKP(h, bp)), val)

\* bp = PREV_BLKP(bp), and the end of coalesce.
coalesceToPrev(h, bp) ==
    coalesceCursor(Reads(h, {POff(bp, 0 - DSIZE)}), PREV_BLKP(h, bp))

\* Case 2: the next block is free.
coalesceNext(h, bp, size) ==
    coalesceCursor(PutFtr(PutHdr(h, bp, PACK(size, 0)), bp, PACK(size, 0)), bp)

\* Case 3: the previous block is free.
coalescePrev(h, bp, size) ==
    coalesceToPrev(
        PutPrevHdr(PutFtr(h, bp, PACK(size, 0)), bp, PACK(size, 0)), bp)

\* Case 4: both neighbours are free.
coalesceBoth(h, bp, size) ==
    coalesceToPrev(
        PutNextFtr(PutPrevHdr(h, bp, PACK(size, 0)), bp, PACK(size, 0)), bp)

\* The four cases of coalesce; size is GET_SIZE(HDRP(bp)).
coalesceCase(h, bp, prev_alloc, next_alloc, size) ==
    IF prev_alloc = 1 /\ next_alloc = 1 THEN [h |-> h, ret |-> bp]
    ELSE IF prev_alloc = 1 /\ next_alloc = 0
    THEN coalesceNext(h, bp,
            U32Add(size, GET_SIZE(GET(h, HDRP(NEXT_BLKP(h, bp))))))
    ELSE IF prev_alloc = 0 /\ next_alloc = 1
    THEN coalescePrev(h, bp,
            U32Add(size, GET_SIZE(GET(h, HDRP(PREV_BLKP(h, bp))))))
    ELSE coalesceBoth(Reads(h, {FTRP(h, NEXT_BLKP(h, bp))}), bp,
            U32Add(size,
                   U32Add(GET_SIZE(GET(h, HDRP(PREV_BLKP(h, bp)))),
                          GET_SIZE(GET(h, FTRP(h, NEXT_BLKP(h, bp)))))))

\* coalesce(bp)
coalesce(h, bp) ==
    coalesceCase(
        Reads(h, {POff(bp, 0 - DSIZE), HDRP(PREV_BLKP(h, bp)),
                  FTRP(h, PREV_BLKP(h, bp)), HDRP(bp), HDRP(NEXT_BLKP(h, bp))}),
        bp,
        GET_ALLOC(GET(h, FTRP(h, PREV_BLKP(h, bp)))),
        GET_ALLOC(GET(h, HDRP(NEXT_BLKP(h, bp)))),
        GET_SIZE(GET(h, HDRP(bp))))

\* extend_heap after mem_sbrk: r is what mem_sbrk(size) gave.
extendGrown(r, size) ==
    IF r.ret = NULL THEN [h |-> r.h, ret |-> NULL]
    ELSE coalesce(
            PutNextHdr(
                PutFtr(PutHdr(r.h, r.ret, PACK(size, 0)), r.ret, PACK(size, 0)),
                r.ret, PACK(0, 1)),
            r.ret)

extendBytes(h, size) == extendGrown(mem_sbrk(h, size), size)

\* extend_heap(words): append a free block of an even number of words.
extend_heap(h, words) ==
    extendBytes(h, IF words % 2 = 1 THEN U32Mul(WSIZE, words + 1)
                   ELSE U32Mul(WSIZE, words))

\* The second loop of find_fit: from heap_listp up to the old next_fit.
RECURSIVE fitWrap(_, _, _)
fitWrap(h, asize, bp) ==
    LET w  == GET(h, HDRP(h.nf))
        h1 == Reads(h, {HDRP(h.nf)})
    IN  IF ~(h.nf < bp) THEN [h |-> h, ret |-> NULL]
        ELSE IF h1.ub THEN [h |-> h1, ret |-> NULL]
        ELSE IF GET_ALLOC(w) = 0 /\ U32Le(asize, GET_SIZE(w))
        THEN [h |-> h, ret |-> h.nf]
        ELSE IF NEXT_BLKP(h, h.nf) = h.nf
        THEN [h |-> [h EXCEPT !.hang = TRUE], ret |-> NULL]
        ELSE fitWrap([h EXCEPT !.nf = NEXT_BLKP(h, h.nf)], asize, bp)

\* The first loop of find_fit: from next_fit to the epilogue.
RECURSIVE fitScan(_, _, _)
fitScan(h, asize, bp) ==
    LET w  == GET(h, HDRP(h.nf))
        h1 == Reads(h, {HDRP(h.nf)})
    IN  IF h1.ub THEN [h |-> h1, ret |-> NULL]
        ELSE IF ~(U32Lt(0, GET_SIZE(w)))
        THEN fitWrap([h EXCEPT !.nf = h.hl], asize, bp)
        ELSE IF GET_ALLOC(w) = 0 /\ U32Le(asize, GET_SIZE(w))
        THEN [h |-> h, ret |-> h.nf]
        ELSE fitScan([h EXCEPT !.nf = NEXT_BLKP(h, h.nf)], asize, bp)

\* A first-fit search: every search starts at heap_listp.
find_fit_first(h, asize) == fitScan([h EXCEPT !.nf = h.hl], asize, h.hl)

\* A search that leaves next_fit at heap_listp when it finds nothing.
find_fit_reset(h, asize) ==
    LET r == fitScan(h, asize, h.nf)
    IN  IF r.ret = NULL THEN [h |-> [r.h EXCEPT !.nf = h.hl], ret |-> NULL]
        ELSE r

\* A search that walks with a pointer of its own and leaves next_fit alone.
find_fit_stay(h, asize) ==
    [h   |-> [fitScan(h, asize, h.nf).h EXCEPT !.nf = h.nf],
     ret |-> fitScan(h, asize, h.nf).ret]

\* find_fit(asize): next fit, from next_fit to the epilogue and then from
\* heap_listp to where the search began.
find_fit(h, asize) == fitScan(h, asize, h.nf)

\* The test (csize - asize) >= 2*DSIZE of place, on size_t: below asize the
\* difference wraps to a huge value.
placeSplits(csize, asize) ==
    IF U32Le(asize, csize) THEN U32Le(2 * DSIZE, U32Sub(csize, asize))
    ELSE TRUE

placeCursor(h, bp) ==
    IF h.nf = bp
    THEN [(Reads(h, {HDRP(bp)})) EXCEPT !.nf = NEXT_BLKP(h, bp)]
    ELSE h

\* The remainder of a split block: bp is NEXT_BLKP of the block placed.
placeRemainder(h, bp, val) ==
    placeCursor(PutFtr(PutHdr(h, bp, val), bp, val), bp)

\* bp = NEXT_BLKP(bp) in the split branch.
placeSplit(h, bp, val) == placeRemainder(h, NEXT_BLKP(h, bp), val)

\* The two branches of place; csize is GET_SIZE(HDRP(bp)).
placeSized(h, bp, asize, csize) ==
    IF placeSplits(csize, asize)
    THEN placeSplit(
            PutFtr(PutHdr(h, bp, PACK(asize, 1)), bp, PACK(asize, 1)),
            bp, PACK(U32Sub(csize, asize), 0))
    ELSE placeCursor(
            PutFtr(PutHdr(h, bp, PACK(csize, 1)), bp, PACK(csize, 1)), bp)

\* place(bp, asize)
place(h, bp, asize) ==
    placeSized(Reads(h, {HDRP(bp)}), bp, asize, GET_SIZE(GET(h, HDRP(bp))))

\* mm_free(bp)
mm_free(h, bp) ==
    coalesce(
        PutFtr(PutHdr(Reads(h, {HDRP(bp)}), bp,
                      PACK(GET_SIZE(GET(h, HDRP(bp))), 0)),
               bp, PACK(GET_SIZE(GET(h, HDRP(bp))), 0)),
        bp)

\* The adjusted block size of mm_malloc, in unsigned 32-bit arithmetic.
AdjustedSize(size) ==
    IF U32Le(size, DSIZE) THEN 2 * DSIZE
    ELSE U32Mul(DSIZE, U32Div(U32Add(U32Add(size, DSIZE), DSIZE - 1), DSIZE))

\* MAX(int x, int y): its arguments arrive converted to int.
MAX(x, y) == IF x > y THEN x ELSE y

\* A mm_malloc that takes no request for spurious.
never_spurious(size) == FALSE

\* "Ignore spurious requests": the test size == 0 of mm_malloc.
spurious(size) == size = 0

\* place(bp, asize); return bp;  r is what find_fit or extend_heap gave.
mallocPlace(r, asize) == [h |-> place(r.h, r.ret, asize), ret |-> r.ret]

\* mm_malloc after extend_heap.
mallocExtended(e, asize) ==
    IF e.ret = NULL THEN [h |-> e.h, ret |-> NULL]
    ELSE mallocPlace(e, asize)

\* mm_malloc after find_fit.
mallocFound(f, asize) ==
    IF f.h.ub \/ f.h.hang THEN [h |-> f.h, ret |-> NULL]
    ELSE IF f.ret # NULL THEN mallocPlace(f, asize)
    ELSE mallocExtended(
            extend_heap(f.h, U32Div(MAX(asize, CHUNKSIZE), WSIZE)), asize)

\* mm_malloc(size)
mm_malloc(h, size) ==
    IF spurious(size) THEN [h |-> h, ret |-> NULL]
    ELSE mallocFound(find_fit(h, AdjustedSize(size)), AdjustedSize(size))

\* One word of memcpy's destination that receives only its first r bytes
\* (little-endian): the low r bytes of src under the high bytes of dst.
MixWord(src, dst, r) ==
    LET m == IF r = 1 THEN 256 ELSE IF r = 2 THEN 65536 ELSE 16777216
    IN  (dst - (dst % m)) + (src % m)

\* The words memcpy leaves in the heap: a word that is copied from a word
\* holding no value holds no value afterwards; the bytes a partly written
\* word keeps are 0 where the word held no value.
memcpyWords(h, dst, src, n) ==
    LET full == n \div WSIZE
        r    == n % WSIZE
        last == dst + WSIZE * full
        from(d) == src + (d - dst)
        inside == /\ n >= 0
                  /\ dst >= 0 /\ src >= 0
                  /\ dst + n <= h.brk /\ src + n <= h.brk
                  /\ (dst + n <= src \/ src + n <= dst)
        \* the whole words of dst that receive a value, and the last one
        D    == {dst + (q - src) : q \in {q \in DOMAIN h.mem : src <= q /\ q < src + WSIZE * full}}
        part == IF r > 0 /\ Valid(h, from(last)) THEN {last} ELSE {}
        kept == {q \in DOMAIN h.mem : q < dst \/ q >= dst + n}
    IN  IF n = 0 THEN h
        ELSE IF ~inside THEN [h EXCEPT !.ub = TRUE]
        ELSE [h EXCEPT !.mem =
                [q \in kept \cup D \cup part |->
                    IF q \in D THEN h.mem[from(q)]
                    ELSE IF q \in part
                    THEN MixWord(h.mem[from(q)], GET(h, q), r)
                    ELSE h.mem[q]]]

\* memcpy(dst, src, n)
memcpy(h, dst, src, n) ==
    [memcpyWords(h, dst, src, n) EXCEPT !.copy = <<[dst |-> dst, n |-> n]>>]

\* mm_realloc after memcpy.
reallocFree(h, newp, ptr) ==
    [h |-> mm_free(h, ptr).h, ret |-> newp, exit |-> FALSE]

\* A mm_realloc that frees ptr before it gives up.
reallocFailed_frees(m, ptr) ==
    [h |-> mm_free(m.h, ptr).h, ret |-> NULL, exit |-> TRUE]

\* newp == NULL: the message and exit(1).
reallocFailed(m, ptr) == [h |-> m.h, ret |-> NULL, exit |-> TRUE]

\* mm_realloc after mm_malloc: m is what mm_malloc(size) gave, hsize is
\* GET_SIZE(HDRP(ptr)).
reallocCopy(m, ptr, size, hsize) ==
    IF m.h.ub \/ m.h.hang THEN [h |-> m.h, ret |-> m.ret, exit |-> FALSE]
    ELSE IF m.ret = NULL THEN reallocFailed(m, ptr)
    ELSE reallocFree(
            memcpy(Reads(m.h, {HDRP(ptr)}), m.ret, ptr,
                   IF U32Lt(size, hsize) THEN size ELSE hsize),
            m.ret, ptr)

reallocNew(m, ptr, size) ==
    reallocCopy(m, ptr, size, GET_SIZE(GET(m.h, HDRP(ptr))))

\* mm_realloc(ptr, size); exit |-> TRUE is exit(1).
mm_realloc(h, ptr, size) == reallocNew(mm_malloc(h, size), ptr, size)

\* A mm_init that leaves out the padding word.
initWords_unpadded(h, p) ==
    [PUT(PUT(PUT(h, p, PACK(DSIZE, 1)),
             p + (1 * WSIZE), PACK(DSIZE, 1)),
         p + (2 * WSIZE), PACK(0, 1))
        EXCEPT !.hl = p + (1 * WSIZE), !.nf = p + (1 * WSIZE)]

\* The four words mm_init writes at p, heap_listp and next_fit.
initWords(h, p) ==
    [PUT(PUT(PUT(PUT(h, p, 0),
                 p + (1 * WSIZE), PACK(DSIZE, 1)),
             p + (2 * WSIZE), PACK(DSIZE, 1)),
         p + (3 * WSIZE), PACK(0, 1))
        EXCEPT !.hl = p + (2 * WSIZE), !.nf = p + (2 * WSIZE)]

\* A mm_init that does not look at what extend_heap gave.
initExtended_unchecked(e) == [h |-> e.h, ret |-> 0]

\* mm_init after extend_heap.
initExtended(e) ==
    IF e.ret = NULL THEN [h |-> e.h, ret |-> 0 - 1]
    ELSE [h |-> e.h, ret |-> 0]

\* mm_init after its mem_sbrk.
initGrown(r) ==
    IF r.ret = NULL THEN [h |-> r.h, ret |-> 0 - 1]
    ELSE initExtended(extend_heap(initWords(r.h, r.ret), CHUNKSIZE \div WSIZE))

\* mm_init()
mm_init(h) == initGrown(mem_sbrk(h, 4 * WSIZE))

\* ------------------------------------------------------------ heap walk
\* The blocks a walk from heap_listp visits, as the loop of mm_checkheap does:
\* it stops at a header of size 0, and (here) at a header it cannot read.
RECURSIVE walkFrom(_, _)
walkFrom(h, bp) ==
    IF ~Valid(h, HDRP(bp)) \/ ~(U32Lt(0, GET_SIZE(GET(h, HDRP(bp))))) THEN <<>>
    ELSE <<bp>> \o walkFrom(h, NEXT_BLKP(h, bp))

Blocks(h) == walkFrom(h, h.hl)

hdr(h, bp) == GET(h, HDRP(bp))

ftr(h, bp) == GET(h, FTRP(h, bp))

IsFree(h, bp) == GET_ALLOC(hdr(h, bp)) = 0

RECURSIVE SumSeq(_)
SumSeq(q) == IF q = <<>> THEN 0 ELSE Head(q) + SumSeq(Tail(q))

\* Total size of the free blocks of the walk.
FreeBytes(h) ==
    LET B == Blocks(h)
    IN  SumSeq([i \in 1 .. Len(B) |->
                  IF IsFree(h, B[i]) /\ GET_SIZE(hdr(h, B[i])) <= h.max
                  THEN GET_SIZE(hdr(h, B[i])) ELSE 0])

\* ------------------------------------------------------------ the program
\* Request sizes: 0, two sizes within one chunk, one beyond the chunk size,
\* and the patterns of 2^31, 2^32 - 15 and 2^32 - 1.
Sizes == {0, 40, 100, 4100, MinInt32, 0 - 15, 0 - 1}

\* The request sizes of the reuse scenario.
ScenSizes == {40, 50, 100}

\* The requests the size adjustment is applied to: 1 .. AdjustSpan, the
\* values AdjustSpan around 2^31, and the last AdjustSpan values below 2^32.
AdjustInputs ==
    (1 .. AdjustSpan)
        \cup {MaxInt32 - k : k \in 0 .. AdjustSpan}
        \cup {MinInt32 + k : k \in 0 .. AdjustSpan}
        \cup {0 - k : k \in 1 .. AdjustSpan}

\* Sizes mm_realloc is asked for.
ReSizes == {0, 40, 4100}

\* The limits mem_sbrk may enforce: too small for mm_init's first request,
\* too small for its second, and MaxChunks chunks.
Limits == {8, 4 * WSIZE, 4 * WSIZE + MaxChunks * CHUNKSIZE}

VARIABLES
    heap,     \* the heap record: memory, mem_brk, heap_listp, next_fit
    status,   \* "uninit", "ready", or how the program ended
    live,     \* the blocks the caller holds: [p, n, size] per successful call
    hist      \* the calls made so far, in order

vars == <<heap, status, live, hist>>

\* A call as hist records it: what was asked, what came back, the mem_sbrk
\* requests it made, and the free bytes, break and cursor it started from.
Call(op, n, ptr, r) ==
    [op |-> op, n |-> n, ptr |-> ptr, ret |-> r.ret, sbrk |-> r.h.calls,
     preFree |-> FreeBytes(heap), preBrk |-> heap.brk, preNf |-> heap.nf]

Handle(h, p, n) == [p |-> p, n |-> n, size |-> GET_SIZE(hdr(h, p))]

Entry == [heap EXCEPT !.calls = <<>>, !.copy = <<>>]

Init ==
    /\ heap \in {Heap0(m) : m \in Limits}
    /\ status = "uninit"
    /\ live = {}
    /\ hist = <<>>

\* How a call that set ub or hang ends: a loop that never ends, or undefined
\* behaviour, which either stops the program or lets the call return.
Ends(h, done) ==
    IF h.hang THEN status' = "hang" /\ live' = live
    ELSE IF h.ub
    THEN \E out \in {"crashed", "ub"} :
            /\ status' = out
            /\ live' = IF out = "ub" THEN done ELSE live
    ELSE status' = "ready" /\ live' = done

\* What a call leaves behind: r is what the function gave.
InitReturns(r) ==
    /\ heap' = r.h
    /\ status' = IF r.ret = 0 THEN "ready" ELSE "init_failed"
    /\ hist' = <<Call("init", 0, NULL, r)>>

MallocReturns(n, r) ==
    /\ heap' = r.h
    /\ hist' = Append(hist, Call("malloc", n, NULL, r))
    /\ Ends(r.h, IF r.ret = NULL THEN live
                 ELSE live \cup {Handle(r.h, r.ret, n)})

FreeReturns(b, r) ==
    /\ heap' = r.h
    /\ hist' = Append(hist, Call("free", 0, b.p, [r EXCEPT !.ret = NULL]))
    /\ Ends(r.h, live \ {b})

ReallocReturns(b, n, r) ==
    /\ heap' = r.h
    /\ hist' = Append(hist, Call("realloc", n, b.p, r))
    /\ IF r.exit THEN status' = "exited" /\ live' = live
       ELSE Ends(r.h, (live \ {b}) \cup {Handle(r.h, r.ret, n)})

Init_mm ==
    /\ status = "uninit"
    /\ InitReturns(mm_init(Entry))
    /\ live' = live

Malloc(n) ==
    /\ status = "ready"
    /\ Len(hist) <= MaxCalls
    /\ MallocReturns(n, mm_malloc(Entry, n))

Free(b) ==
    /\ status = "ready"
    /\ Len(hist) <= MaxCalls
    /\ FreeReturns(b, mm_free(Entry, b.p))

Realloc(b, n) ==
    /\ status = "ready"
    /\ Len(hist) <= MaxCalls
    /\ ReallocReturns(b, n, mm_realloc(Entry, b.p, n))

Next ==
    \/ Init_mm
    \/ \E n \in Sizes : Malloc(n)
    \/ \E b \in live : Free(b)
    \/ \E b \in live, n \in ReSizes : Realloc(b, n)

Spec == Init /\ [][Next]_vars

\* The same program called with the sizes of the reuse scenario only.
NextScenario ==
    \/ Init_mm
    \/ \E n \in ScenSizes : Malloc(n)
    \/ \E b \in live : Free(b)

SpecScenario == Init /\ [][NextScenario]_vars

\* The size adjustment of mm_malloc alone, applied to one request.
InitAdjust ==
    /\ heap = Heap0(0)
    /\ status = "adjust"
    /\ live = {}
    /\ hist = <<>>

Adjust(n) ==
    /\ status = "adjust"
    /\ hist = <<>>
    /\ hist' = <<[op |-> "adjust", n |-> n, ret |-> AdjustedSize(n)]>>
    /\ UNCHANGED <<heap, status, live>>

NextAdjust == \E n \in AdjustInputs : Adjust(n)

SpecAdjust == InitAdjust /\ [][NextAdjust]_vars

\* The sizes asked of mm_malloc and of mm_realloc where the caller fills its
\* blocks: whole words and not, smaller and larger than the block, and the
\* pattern of 2^32 - 1.
CopySizes == {10, 40}

CopyReSizes == {10, 24, 100, 0 - 1}

\* The word the caller writes k words into a payload.
Pattern(k) == 16909060 + k

\* The caller writes a pattern into the n bytes it asked for (whole words:
\* the payload is a multiple of 8 bytes long).
Fill(b) ==
    /\ status = "ready"
    /\ Len(hist) <= MaxCalls
    /\ b.n > 0 /\ b.p + b.n <= heap.brk
    /\ heap' = [Entry EXCEPT !.mem =
                    [k \in {b.p + WSIZE * i : i \in 0 .. ((b.n + 3) \div WSIZE) - 1}
                        |-> Pattern((k - b.p) \div WSIZE)] @@ @]
    /\ hist' = Append(hist, Call("fill", b.n, b.p, [h |-> Entry, ret |-> NULL]))
    /\ UNCHANGED <<status, live>>

\* The program with a caller that fills its blocks and reallocates them.
NextCopy ==
    \/ Init_mm
    \/ \E n \in CopySizes : Malloc(n)
    \/ \E b \in live : Fill(b)
    \/ \E b \in live, n \in CopyReSizes : Realloc(b, n)

SpecCopy == Init /\ [][NextCopy]_vars

\* The call just made.
Last == hist[Len(hist)]

\* ------------------------------------------------------------- the claims
\* The calls of hist, and the requests made so far.
Calls(op) == {i \in 1 .. Len(hist) : hist[i].op = op}

OnlyMallocFree == \A i \in 1 .. Len(hist) : hist[i].op \in {"init", "malloc", "free"}

\* 1 <= n < 2^32 - 15
InRange(n) == U32Le(1, n) /\ U32Lt(n, 0 - 15)

RequestsInRange == \A i \in Calls("malloc") : InRange(hist[i].n)

\* The block of handle b as the heap has it now: it is a block of the walk,
\* marked allocated, of the size it was returned with, its payload holds the
\* n bytes asked for, and it ends inside the heap.
BlockSound(h, b) ==
    LET size == GET_SIZE(hdr(h, b.p))
    IN  /\ \E i \in 1 .. Len(Blocks(h)) : Blocks(h)[i] = b.p
        /\ GET_ALLOC(hdr(h, b.p)) = 1
        /\ size = b.size
        /\ size >= DSIZE /\ size <= h.max
        /\ U32Le(b.n, size - DSIZE)
        /\ (b.p - WSIZE) + size <= h.brk - WSIZE

Disjoint(b, c) ==
    \/ (b.p - WSIZE) + b.size <= c.p - WSIZE
    \/ (c.p - WSIZE) + c.size <= b.p - WSIZE

\* C1: after mm_init and any mm_malloc (1 <= n < 2^32 - 15) and mm_free of
\* live blocks, every block the caller holds is an allocated block of the
\* heap with a payload of at least n bytes inside the heap, of unchanged
\* address and size, and no two of them overlap.
C1_LiveBlocksSound ==
    (status \in {"ready", "ub"} /\ OnlyMallocFree /\ RequestsInRange) =>
        /\ \A b \in live : BlockSound(heap, b)
        /\ \A b \in live : \A c \in live \ {b} : Disjoint(b, c)

\* C2: every block of the walk from heap_listp has a header word equal to
\* its footer word.
C2_HeaderEqualsFooter ==
    status = "ready" =>
        \A i \in 1 .. Len(Blocks(heap)) :
            /\ Valid(heap, FTRP(heap, Blocks(heap)[i]))
            /\ hdr(heap, Blocks(heap)[i]) = ftr(heap, Blocks(heap)[i])

\* C3: after mm_init and after every completed call no two physically
\* adjacent blocks are both free.
C3_NoAdjacentFree ==
    status = "ready" =>
        \A i \in 1 .. (Len(Blocks(heap)) - 1) :
            ~(IsFree(heap, Blocks(heap)[i]) /\ IsFree(heap, Blocks(heap)[i + 1]))

\* C4: for every request n > 0 the adjusted size is a multiple of 8, at
\* least 16, at least n + 8, and less than n + 16 (the smallest such).
C4_AdjustedSize ==
    \A i \in Calls("adjust") :
        LET n == hist[i].n
            asize == hist[i].ret
        IN  /\ asize % DSIZE = 0
            /\ U32Le(2 * DSIZE, asize)
            /\ U32Le(n, U32Sub(asize, DSIZE))
            /\ U32Lt(U32Sub(asize, 2 * DSIZE), n)

\* C5: after mm_init and any mm_malloc and mm_free of live blocks, every
\* block after the prologue has a size of at least 16 that is a multiple of 8.
C5_BlockSizes ==
    (status = "ready" /\ OnlyMallocFree) =>
        \A i \in 2 .. Len(Blocks(heap)) :
            /\ U32Le(2 * DSIZE, GET_SIZE(hdr(heap, Blocks(heap)[i])))
            /\ GET_SIZE(hdr(heap, Blocks(heap)[i])) % DSIZE = 0

\* The scenario: mm_init; A = mm_malloc(100); B = mm_malloc(50); mm_free(A);
\* mm_malloc(40).
ReuseScenario ==
    /\ Len(hist) = 5
    /\ hist[2].op = "malloc" /\ hist[2].n = 100
    /\ hist[3].op = "malloc" /\ hist[3].n = 50
    /\ hist[4].op = "free" /\ hist[4].ptr = hist[2].ret
    /\ hist[5].op = "malloc" /\ hist[5].n = 40

RoundTrip ==
    /\ status = "ready" /\ status' = "ready"
    /\ hist # <<>> /\ Last.op = "malloc" /\ Last.n # 0 /\ Last.ret # NULL
    /\ hist' = Append(hist, hist'[Len(hist')])
    /\ hist'[Len(hist')].op = "free"
    /\ hist'[Len(hist')].ptr = Last.ret

\* C7: the free bytes after the round trip are those before the mm_malloc.
C7_FreeBytesRestored ==
    [][RoundTrip => FreeBytes(heap') = Last.preFree]_vars

\* A mm_malloc step whose mem_sbrk request was refused.
GrowthRefused ==
    /\ status = "ready"
    /\ hist' = Append(hist, hist'[Len(hist')])
    /\ hist'[Len(hist')].op = "malloc"
    /\ hist'[Len(hist')].sbrk # <<>>
    /\ ~hist'[Len(hist')].sbrk[1].ok

\* C8: when no block fits and mem_sbrk fails, mm_malloc returns NULL without
\* crashing and leaves every word, the heap top and next_fit as they were.
C8_FailureLeavesHeap ==
    [][GrowthRefused =>
          /\ hist'[Len(hist')].ret = NULL
          /\ status' = "ready"
          /\ heap'.mem = heap.mem
          /\ heap'.brk = heap.brk
          /\ heap'.nf = heap.nf]_vars

C8_Witness ==
    /\ status = "ready" /\ hist # <<>> /\ Last.op = "malloc"
    /\ \A i \in 1 .. Len(hist) : hist[i].n >= 0
    /\ Last.sbrk # <<>> /\ ~Last.sbrk[1].ok
    /\ Last.ret = NULL
    /\ Last.preNf # heap.hl

\* A mm_malloc(0) step.
MallocZero ==
    /\ status = "ready"
    /\ hist' = Append(hist, hist'[Len(hist')])
    /\ hist'[Len(hist')].op = "malloc"
    /\ hist'[Len(hist')].n = 0

\* C9: mm_malloc(0) returns NULL, calls mem_sbrk not once and changes no word,
\* nor the heap top, nor next_fit.
C9_ZeroIsNoOp ==
    [][MallocZero =>
          /\ hist'[Len(hist')].ret = NULL
          /\ hist'[Len(hist')].sbrk = <<>>
          /\ status' = "ready"
          /\ live' = live
          /\ heap'.mem = heap.mem
          /\ heap'.brk = heap.brk
          /\ heap'.nf = heap.nf]_vars

C9_Witness ==
    /\ status = "ready" /\ Len(hist) >= 3 /\ Last.op = "malloc" /\ Last.n = 0
    /\ \A i \in 1 .. Len(hist) : hist[i].n >= 0
    /\ live # {}

\* A mm_malloc step that called mem_sbrk.
Grows ==
    /\ status = "ready"
    /\ hist' = Append(hist, hist'[Len(hist')])
    /\ hist'[Len(hist')].op = "malloc"
    /\ hist'[Len(hist')].sbrk # <<>>

\* Some free block of the walk is at least size bytes long.
FitExists(h, size) ==
    \E i \in 1 .. Len(Blocks(h)) :
        IsFree(h, Blocks(h)[i]) /\ U32Le(size, GET_SIZE(hdr(h, Blocks(h)[i])))

\* max(a, b) on unsigned values.
U32Max(a, b) == IF U32Lt(a, b) THEN b ELSE a

\* C10: mm_malloc calls mem_sbrk only when no free block of the heap is as
\* large as the adjusted size, and then asks for max(adjusted size, 4096).
C10_GrowsByMax ==
    [][Grows =>
          LET c == hist'[Len(hist')]
          IN  /\ ~FitExists(heap, AdjustedSize(c.n))
              /\ c.sbrk[1].incr = U32Max(AdjustedSize(c.n), CHUNKSIZE)]_vars

\* A mm_realloc(p, n) step, n > 0, that returns.
ReallocReturned ==
    /\ status = "ready" /\ status' = "ready"
    /\ hist' = Append(hist, hist'[Len(hist')])
    /\ hist'[Len(hist')].op = "realloc"
    /\ hist'[Len(hist')].n # 0

\* The low r bytes of two words are the same.
SameBytes(v, w, r) ==
    IF r >= WSIZE THEN v = w
    ELSE v % (IF r = 1 THEN 256 ELSE IF r = 2 THEN 65536 ELSE 16777216)
            = w % (IF r = 1 THEN 256 ELSE IF r = 2 THEN 65536 ELSE 16777216)

\* q holds the first m bytes p held in heap h0.
Preserved(h0, p, h1, q, m) ==
    \A i \in 0 .. ((m + 3) \div WSIZE) - 1 :
        Valid(h0, p + WSIZE * i) =>
            /\ Valid(h1, q + WSIZE * i)
            /\ SameBytes(h1.mem[q + WSIZE * i], h0.mem[p + WSIZE * i],
                         m - WSIZE * i)

\* The bytes from p - WSIZE on, size of them, lie in one free block of h.
InFreeBlock(h, p, size) ==
    \E i \in 1 .. Len(Blocks(h)) :
        /\ IsFree(h, Blocks(h)[i])
        /\ Blocks(h)[i] <= p
        /\ p + size <= Blocks(h)[i] + GET_SIZE(hdr(h, Blocks(h)[i]))

\* What C11 says of mm_realloc(p, n) returning q, from heap h0 to heap h1.
ReallocMoved(h0, h1, p, q, n, oldsize, newsize) ==
    /\ q # NULL /\ q # p
    /\ \E i \in 1 .. Len(Blocks(h1)) : Blocks(h1)[i] = q
    /\ GET_ALLOC(hdr(h1, q)) = 1
    /\ (p + oldsize <= q \/ q + newsize <= p)
    /\ Preserved(h0, p, h1, q,
                 IF U32Lt(n, oldsize - DSIZE) THEN n ELSE oldsize - DSIZE)
    /\ InFreeBlock(h1, p, oldsize)
    /\ \A i \in 1 .. Len(h1.copy) :
          /\ h1.copy[i].dst >= q
          /\ h1.copy[i].dst + h1.copy[i].n <= (q + newsize) - DSIZE

\* C11: a mm_realloc(p, n), n > 0, that returns yields a live block q # p
\* that does not overlap p's old block and holds the first min(old payload
\* size, n) bytes p held; p's old block is free afterwards, and every byte
\* copied was written inside q's payload.
C11_ReallocCopies ==
    [][ReallocReturned =>
          ReallocMoved(heap, heap', hist'[Len(hist')].ptr, hist'[Len(hist')].ret,
                       hist'[Len(hist')].n,
                       GET_SIZE(hdr(heap, hist'[Len(hist')].ptr)),
                       GET_SIZE(hdr(heap', hist'[Len(hist')].ret)))]_vars

\* A mm_realloc(p, n) step on a block p marked allocated, without undefined
\* behaviour.
ReallocEnds ==
    /\ status = "ready" /\ status' \in {"ready", "exited"}
    /\ hist' = Append(hist, hist'[Len(hist')])
    /\ hist'[Len(hist')].op = "realloc"
    /\ GET_ALLOC(hdr(heap, hist'[Len(hist')].ptr)) = 1

\* The block at p is in h1 as it was in h0: header, footer, allocated.
BlockKept(h0, h1, p) ==
    /\ hdr(h1, p) = hdr(h0, p)
    /\ ftr(h1, p) = ftr(h0, p)
    /\ FTRP(h1, p) = FTRP(h0, p)
    /\ GET_ALLOC(hdr(h1, p)) = 1

\* C12: mm_realloc(p, n) returns no NULL: when its mm_malloc(n) gives NULL
\* (n = 0, or no fit and mem_sbrk refuses) the program exits, and then p's
\* block is still allocated, header, footer and size as before the call.
C12_ReallocFailureExits ==
    [][ReallocEnds =>
          /\ (status' = "ready") = (hist'[Len(hist')].ret # NULL)
          /\ status' = "exited" =>
                BlockKept(heap, heap', hist'[Len(hist')].ptr)]_vars

\* mm_realloc has exited because mem_sbrk refused to grow the heap.
C12_Witness ==
    /\ status = "exited" /\ Last.op = "realloc" /\ Last.n # 0
    /\ Last.ret = NULL
    /\ Last.sbrk # <<>> /\ ~Last.sbrk[1].ok
    /\ \A i \in 1 .. Len(hist) : hist[i].n >= 0
    /\ GET_ALLOC(hdr(heap, Last.ptr)) = 1

\* The walk from heap_listp ends exactly at the epilogue, the last word of
\* the heap.
WalkTiles(h) ==
    /\ Blocks(h) # <<>>
    /\ NEXT_BLKP(h, Blocks(h)[Len(Blocks(h))]) = h.brk
    /\ GET(h, HDRP(h.brk)) = PACK(0, 1)

\* C13: after mm_init the block at heap_listp is the prologue, header and
\* footer (8, allocated); the last word of the heap is the epilogue header
\* (0, allocated); the walk from heap_listp visits blocks of positive size
\* and lands exactly on the epilogue.
C13_PrologueEpilogueWalk ==
    status = "ready" =>
        /\ Valid(heap, HDRP(heap.hl)) /\ Valid(heap, heap.hl)
        /\ hdr(heap, heap.hl) = PACK(DSIZE, 1)
        /\ GET(heap, heap.hl) = PACK(DSIZE, 1)
        /\ Valid(heap, HDRP(heap.brk))
        /\ WalkTiles(heap)

\* C14: with the heap's first byte 8-byte aligned (addresses are offsets
\* from it), heap_listp, the payload address of every block of the walk and
\* every address mm_malloc or mm_realloc returned are multiples of 8.
C14_PayloadAligned ==
    status \in {"ready", "ub", "crashed", "exited", "hang"} =>
        /\ heap.hl % DSIZE = 0
        /\ \A i \in 1 .. Len(Blocks(heap)) : Blocks(heap)[i] % DSIZE = 0
        /\ \A i \in Calls("malloc") \cup Calls("realloc") :
              hist[i].ret # NULL => hist[i].ret % DSIZE = 0

\* The heap has grown and holds split and merged blocks, all requests in
\* range.
C14_Witness ==
    /\ status = "ready" /\ Len(Blocks(heap)) >= 4
    /\ \E i \in Calls("malloc") : hist[i].sbrk # <<>> /\ hist[i].ret # NULL
    /\ Calls("free") # {}
    /\ \A i \in 1 .. Len(hist) : hist[i].n > 0 \/ hist[i].op # "malloc"
    /\ \A i \in 1 .. Len(hist) : hist[i].n >= 0

\* The heap mm_init promises: prologue (8, allocated), one free block of
\* CHUNKSIZE bytes, epilogue (0, allocated), and the cursor on heap_listp.
FreshHeap(h) ==
    /\ Blocks(h) = <<h.hl, h.hl + DSIZE>>
    /\ hdr(h, h.hl) = PACK(DSIZE, 1) /\ ftr(h, h.hl) = PACK(DSIZE, 1)
    /\ hdr(h, h.hl + DSIZE) = PACK(CHUNKSIZE, 0)
    /\ ftr(h, h.hl + DSIZE) = PACK(CHUNKSIZE, 0)
    /\ NEXT_BLKP(h, h.hl + DSIZE) = h.brk
    /\ GET(h, HDRP(h.brk)) = PACK(0, 1)
    /\ FreeBytes(h) = CHUNKSIZE
    /\ h.nf = h.hl

C15_ExtensionRefused ==
    /\ Len(hist) = 1 /\ hist[1].ret = 0 - 1
    /\ Len(hist[1].sbrk) = 2 /\ hist[1].sbrk[1].ok

\* mm_init has just returned -1 because the first mem_sbrk was refused.
C15_FirstRefused ==
    Len(hist) = 1 /\ hist[1].ret = 0 - 1 /\ Len(hist[1].sbrk) = 1

\* The last call was a mm_malloc that returned a block.
MallocSucceeded ==
    /\ status = "ready" /\ hist # <<>>
    /\ Last.op = "malloc" /\ Last.ret # NULL

\* C16: after a mm_malloc that returned a block the cursor is not on that
\* block, and when find_fit found the block (no mem_sbrk was made, so place
\* was called with the cursor on it) the cursor is on the block that
\* follows it.
C16_CursorLeavesPlaced ==
    MallocSucceeded =>
        /\ heap.nf # Last.ret
        /\ Last.sbrk = <<>> => heap.nf = NEXT_BLKP(heap, Last.ret)

\* The payload addresses of the block sequence of h: the blocks of the walk
\* from heap_listp and the epilogue that ends it.
BlockStarts(h) ==
    {Blocks(h)[i] : i \in 1 .. Len(Blocks(h))}
        \cup {NEXT_BLKP(h, Blocks(h)[i]) : i \in {Len(Blocks(h))} \ {0}}

\* C17: after mm_init next_fit is the payload address of a block of the
\* block sequence (prologue, real block or epilogue), inside the heap.
C17_CursorOnBlock ==
    status = "ready" =>
        /\ heap.nf \in BlockStarts(heap)
        /\ heap.hl <= heap.nf /\ heap.nf <= heap.brk

\* The sizes find_fit is asked for: the adjusted sizes of the requests.
FitSizes == {AdjustedSize(n) : n \in (Sizes \cup ScenSizes) \ {0}}

\* The blocks in the order of a search that starts at c: c and the blocks
\* after it, then the blocks from heap_listp up to c.
SearchOrder(h, c) ==
    SelectSeq(Blocks(h), LAMBDA b : b >= c) \o SelectSeq(Blocks(h), LAMBDA b : b < c)

\* The free blocks of at least S bytes, in that order.
Fits(h, S) ==
    SelectSeq(SearchOrder(h, h.nf),
              LAMBDA b : IsFree(h, b) /\ U32Le(S, GET_SIZE(hdr(h, b))))

FirstFit(h, S) == IF Fits(h, S) = <<>> THEN NULL ELSE Fits(h, S)[1]

\* C18: on every heap reached and for every size S, find_fit(S) returns the
\* first free block of at least S bytes in the order of the search and
\* leaves next_fit on it, or returns NULL when there is none and leaves
\* next_fit where it was; it writes nothing to the heap.
C18_FindFitOrder ==
    status = "ready" =>
        \A S \in FitSizes :
            /\ ~find_fit(heap, S).h.ub /\ ~find_fit(heap, S).h.hang
            /\ find_fit(heap, S).ret = FirstFit(heap, S)
            /\ find_fit(heap, S).ret # NULL =>
                    find_fit(heap, S).h.nf = find_fit(heap, S).ret
            /\ find_fit(heap, S).ret = NULL => find_fit(heap, S).h.nf = heap.nf
            /\ find_fit(heap, S).h.mem = heap.mem

\* Where bp is in the walk of h (bp is a block of the walk).
IndexOf(h, bp) == CHOOSE i \in 1 .. Len(Blocks(h)) : Blocks(h)[i] = bp

SizeAt(h, i) == GET_SIZE(hdr(h, Blocks(h)[i]))

\* The free neighbours of the i-th block of the walk.
PrevFree(h, i) == i > 1 /\ IsFree(h, Blocks(h)[i - 1])
NextFree(h, i) == i < Len(Blocks(h)) /\ IsFree(h, Blocks(h)[i + 1])

\* The block that freeing the i-th block should give: first and last index
\* of the span it covers, its address and its size.
MergedFirst(h, i) == IF PrevFree(h, i) THEN i - 1 ELSE i
MergedLast(h, i) == IF NextFree(h, i) THEN i + 1 ELSE i
MergedAt(h, i) == Blocks(h)[MergedFirst(h, i)]
MergedSize(h, i) ==
    SumSeq([k \in 1 .. (MergedLast(h, i) - MergedFirst(h, i)) + 1 |->
                SizeAt(h, (MergedFirst(h, i) + k) - 1)])

\* The blocks of h outside the span merged around the i-th block.
Untouched(h, i) ==
    {Blocks(h)[k] : k \in (1 .. Len(Blocks(h))) \ (MergedFirst(h, i) .. MergedLast(h, i))}

\* g is h after the i-th block of its walk was freed and merged as the
\* four cases say, and nothing else changed.
MergedRight(h, i, g) ==
    /\ ~g.ub /\ ~g.hang
    /\ Blocks(g) = SubSeq(Blocks(h), 1, MergedFirst(h, i) - 1)
                     \o <<MergedAt(h, i)>>
                     \o SubSeq(Blocks(h), MergedLast(h, i) + 1, Len(Blocks(h)))
    /\ hdr(g, MergedAt(h, i)) = PACK(MergedSize(h, i), 0)
    /\ ftr(g, MergedAt(h, i)) = PACK(MergedSize(h, i), 0)
    /\ \A b \in Untouched(h, i) : hdr(g, b) = hdr(h, b) /\ ftr(g, b) = ftr(h, b)
    /\ Valid(g, HDRP(g.brk)) /\ GET(g, HDRP(g.brk)) = PACK(0, 1)

\* mm_free(bp) on h does what the four cases say.
FreedRight(h, bp) ==
    /\ \E i \in 1 .. Len(Blocks(h)) : Blocks(h)[i] = bp
    /\ MergedRight(h, IndexOf(h, bp), mm_free(h, bp).h)
    /\ mm_free(h, bp).h.brk = h.brk

\* extend_heap on h appends CHUNKSIZE bytes as a free block and merges it
\* with a free last block; e is what extend_heap gave.
ExtendedRight(h, e) ==
    /\ e.ret # NULL
    /\ e.h.brk = h.brk + CHUNKSIZE
    /\ e.ret = (IF PrevFree(h, Len(Blocks(h)) + 1)
                THEN Blocks(h)[Len(Blocks(h))] ELSE h.brk)
    /\ Blocks(e.h) = (IF PrevFree(h, Len(Blocks(h)) + 1)
                      THEN SubSeq(Blocks(h), 1, Len(Blocks(h)) - 1)
                      ELSE Blocks(h)) \o <<e.ret>>
    /\ hdr(e.h, e.ret) =
            PACK(CHUNKSIZE + (IF PrevFree(h, Len(Blocks(h)) + 1)
                              THEN SizeAt(h, Len(Blocks(h))) ELSE 0), 0)
    /\ ftr(e.h, e.ret) = hdr(e.h, e.ret)
    /\ \A b \in {Blocks(h)[k] : k \in 1 .. Len(Blocks(h))} \ {e.ret} :
            hdr(e.h, b) = hdr(h, b) /\ ftr(e.h, b) = ftr(h, b)
    /\ Valid(e.h, HDRP(e.h.brk)) /\ GET(e.h, HDRP(e.h.brk)) = PACK(0, 1)

\* C19: in every state reached, mm_free of any live block leaves one free
\* block at the lowest address among that block and its free neighbours,
\* of the sum of their sizes, and changes no other header or footer; an
\* extend_heap the heap limit allows does the same with the region it adds.
C19_CoalesceCases ==
    status = "ready" =>
        /\ \A b \in live : FreedRight(heap, b.p)
        /\ heap.brk + CHUNKSIZE <= heap.max =>
                ExtendedRight(heap, extend_heap(heap, CHUNKSIZE \div WSIZE))

\* The sum of the sizes of the blocks of the walk.
TotalSize(h) == SumSeq([i \in 1 .. Len(Blocks(h)) |-> SizeAt(h, i)])

BlockSet(h) == {Blocks(h)[i] : i \in 1 .. Len(Blocks(h))}

\* g is h after place(bp, A) on the free block bp of C >= A bytes: split
\* into (A, allocated) and (C - A, free) when C - A >= 16, else all of it
\* allocated; the sizes of the blocks add up to what they did.
PlacedRight(h, bp, A, C, g) ==
    /\ ~g.ub /\ ~g.hang
    /\ IF U32Le(2 * DSIZE, U32Sub(C, A))
       THEN /\ hdr(g, bp) = PACK(A, 1) /\ ftr(g, bp) = PACK(A, 1)
            /\ hdr(g, bp + A) = PACK(U32Sub(C, A), 0)
            /\ ftr(g, bp + A) = PACK(U32Sub(C, A), 0)
            /\ BlockSet(g) = BlockSet(h) \cup {bp + A}
       ELSE /\ hdr(g, bp) = PACK(C, 1) /\ ftr(g, bp) = PACK(C, 1)
            /\ BlockSet(g) = BlockSet(h)
    /\ TotalSize(g) = TotalSize(h)

\* C20: in every state reached, place(bp, A) on any free block bp of at
\* least A bytes splits it or takes it whole as the remainder is at least
\* 16 bytes or not, and keeps the sum of the block sizes; and the block a
\* mm_malloc has just returned has the adjusted size of the request or 8
\* bytes more.
C20_PlaceSplits ==
    status = "ready" =>
        /\ \A bp \in BlockSet(heap) : \A A \in FitSizes :
              IsFree(heap, bp) /\ U32Le(A, GET_SIZE(hdr(heap, bp))) =>
                  PlacedRight(heap, bp, A, GET_SIZE(hdr(heap, bp)),
                              place(heap, bp, A))
        /\ MallocSucceeded =>
              GET_SIZE(hdr(heap, Last.ret)) \in
                  {AdjustedSize(Last.n), AdjustedSize(Last.n) + DSIZE}
====
